---- MODULE Spec2Model ----
\* seaorm-pool: the configuration data model (src/config.rs) and the pool
\* bootstrap procedure (src/pool.rs).
\*
\* Strings whose content is inspected (hosts, addresses, duration texts) are
\* sequences of one-character strings.  Option<T> is [some |-> FALSE] or
\* [some |-> TRUE, v |-> x]; Result<T, E> is [ok |-> TRUE, v |-> x] or
\* [ok |-> FALSE, e |-> err].
EXTENDS Integers, Sequences, FiniteSets, TLC

VARIABLES
    config,           \* the DatabaseConfig value in hand
    document,         \* the structured document in hand (the serialized boundary)
    origin,           \* "input": document was supplied; "serialized": it is the output of to_string(config)
    parsed,           \* Option<Result<AppConfig, error>>: result of the last from_str
    address,          \* Option<String>: result of the last get_address call
    last,             \* name of the last operation performed
    pc,               \* position of create_connection_pool
    url,              \* Option<Url>: database_url
    connect_options,  \* Option<ConnectOptions>: the options handed to the pooling capability
    log,              \* sequence of emitted tracing events
    span,             \* Option<span>: the db_pool_creation span and its fields
    ret,              \* Option<Result<pool, DbErr>>: what create_connection_pool returned
    failure,          \* the failure detected by create_connection_pool, "none" if none
    connectCalls      \* number of Database::connect invocations

vars == <<config, document, origin, parsed, address, last, pc, url,
          connect_options, log, span, ret, failure, connectCalls>>

\* ---------------------------------------------------------------- bounds
MaxHostLen == 2       \* longest host string tried
MaxCount == 2         \* largest <n> in the duration texts <n><unit> tried

\* ------------------------------------------------------------ primitives
None == [some |-> FALSE]
Some(x) == [some |-> TRUE, v |-> x]
Ok(x) == [ok |-> TRUE, v |-> x]
Err(x) == [ok |-> FALSE, e |-> x]

Digits == <<"0", "1", "2", "3", "4", "5", "6", "7", "8", "9">>
IsDigit(c) == \E i \in 1..10 : Digits[i] = c
DigitVal(c) == (CHOOSE i \in 1..10 : Digits[i] = c) - 1
Letters == {"a", "b", "c", "d", "e", "h", "l", "m", "n", "o", "r", "s", "t",
            "u", "w", "x", "y", "M"}
IsAlpha(c) == c \in Letters
IsSpace(c) == c = " "

\* `{}` of an unsigned integer: its decimal digits, no sign, no padding.
RECURSIVE ToDecimal(_)
ToDecimal(n) ==
    IF n < 10 THEN <<Digits[n + 1]>>
    ELSE ToDecimal(n \div 10) \o <<Digits[(n % 10) + 1]>>

\* The number a string of decimal digits spells.
RECURSIVE DecimalValue(_)
DecimalValue(s) ==
    IF s = <<>> THEN 0
    ELSE 10 * DecimalValue(SubSeq(s, 1, Len(s) - 1)) + DigitVal(s[Len(s)])

AllDigits(s) == \A i \in 1..Len(s) : IsDigit(s[i])

Duration(secs, nanos) == [secs |-> secs, nanos |-> nanos]
from_secs(n) == Duration(n, 0)

\* ------------------------------------------------------ config.rs: defaults
default_max_connections == 10
default_min_connections == 1
default_acquire_timeout == from_secs(30)
default_idle_timeout == from_secs(300)
default_max_lifetime == from_secs(1800)
default_is_lazy == TRUE
default_statement_cache_capacity == 100

PoolOptionsDefault ==
    [max_connections |-> default_max_connections,
     min_connections |-> default_min_connections,
     acquire_timeout |-> default_acquire_timeout,
     idle_timeout |-> default_idle_timeout,
     max_lifetime |-> default_max_lifetime,
     is_lazy |-> default_is_lazy,
     statement_cache_capacity |-> default_statement_cache_capacity]

DatabaseConfigDefault ==
    [host |-> <<"l", "o", "c", "a", "l", "h", "o", "s", "t">>,
     port |-> None,
     username |-> "",
     password |-> "",
     database_name |-> "",
     pool_options |-> PoolOptionsDefault,
     ssl_ca |-> None]

\* ---------------------------------------------- config.rs: get_address
\* get_address without the port branch.
get_address_host_only(self) == self.host

get_address(self) ==
    IF self.port.some
    THEN self.host \o <<":">> \o ToDecimal(self.port.v)
    ELSE self.host

\* ------------------------------- humantime (config.rs: serde with humantime_serde)
\* Unit table of humantime::parse_duration: the units format_duration emits and
\* the one-letter forms (the longer aliases sec, min, hr, ... are left out).
NanoUnits ==
    { <<<<"n", "s">>, 1>>, <<<<"u", "s">>, 1000>>, <<<<"m", "s">>, 1000000>> }
SecUnits ==
    { <<<<"s">>, 1>>, <<<<"m">>, 60>>, <<<<"h">>, 3600>>,
      <<<<"d">>, 86400>>, <<<<"d", "a", "y">>, 86400>>, <<<<"d", "a", "y", "s">>, 86400>>,
      <<<<"w">>, 604800>>,
      <<<<"M">>, 2630016>>, <<<<"m", "o", "n", "t", "h">>, 2630016>>,
      <<<<"m", "o", "n", "t", "h", "s">>, 2630016>>,
      <<<<"y">>, 31557600>>, <<<<"y", "e", "a", "r">>, 31557600>>,
      <<<<"y", "e", "a", "r", "s">>, 31557600>> }

\* First position >= i that is past the end or holds the character c.
RECURSIVE Find(_, _, _)
Find(s, i, c) ==
    IF i <= Len(s) /\ s[i] # c THEN Find(s, i + 1, c) ELSE i

\* The number spelled by the digits of s, whitespace between them skipped.
RECURSIVE DigitsValue(_)
DigitsValue(s) ==
    IF s = <<>> THEN 0
    ELSE IF IsDigit(s[Len(s)])
         THEN 10 * DigitsValue(SubSeq(s, 1, Len(s) - 1)) + DigitVal(s[Len(s)])
         ELSE DigitsValue(SubSeq(s, 1, Len(s) - 1))

\* parse_unit reading the unit m as a month (M).
parse_unit_m_as_month(n, unit, current) ==
    IF \E u \in NanoUnits : u[1] = unit
    THEN LET mult == (CHOOSE u \in NanoUnits : u[1] = unit)[2]
             total == current.nanos + n * mult
         IN Ok(Duration(current.secs + total \div 1000000000, total % 1000000000))
    ELSE IF unit = <<"m">>
    THEN Ok(Duration(current.secs + n * 2630016, current.nanos))
    ELSE IF \E u \in SecUnits : u[1] = unit
    THEN LET mult == (CHOOSE u \in SecUnits : u[1] = unit)[2]
         IN Ok(Duration(current.secs + n * mult, current.nanos))
    ELSE Err("unknown time unit")

\* Parser::parse_unit: adds n units to the running duration.
parse_unit(n, unit, current) ==
    IF \E u \in NanoUnits : u[1] = unit
    THEN LET mult == (CHOOSE u \in NanoUnits : u[1] = unit)[2]
             total == current.nanos + n * mult
         IN Ok(Duration(current.secs + total \div 1000000000, total % 1000000000))
    ELSE IF \E u \in SecUnits : u[1] = unit
    THEN LET mult == (CHOOSE u \in SecUnits : u[1] = unit)[2]
         IN Ok(Duration(current.secs + n * mult, current.nanos))
    ELSE Err("unknown time unit")

\* Parser::parse.  Each round reads <number><unit>: parse_first_char skips
\* whitespace and wants a digit; the number runs over digits and whitespace up
\* to the first letter; the unit runs over letters up to a digit (the next
\* round starts there) or whitespace.
RECURSIVE SkipSpaces(_, _)
SkipSpaces(s, i) ==
    IF i <= Len(s) /\ IsSpace(s[i]) THEN SkipSpaces(s, i + 1) ELSE i
RECURSIVE NumberEnd(_, _)
NumberEnd(s, i) ==
    IF i <= Len(s) /\ (IsDigit(s[i]) \/ IsSpace(s[i])) THEN NumberEnd(s, i + 1) ELSE i
RECURSIVE UnitEnd(_, _)
UnitEnd(s, i) ==
    IF i <= Len(s) /\ IsAlpha(s[i]) THEN UnitEnd(s, i + 1) ELSE i

RECURSIVE parse_from(_, _, _, _)
after_unit(s, u, added) ==
    IF u <= Len(s) /\ ~(IsDigit(s[u]) \/ IsSpace(s[u])) THEN Err("invalid character")
    ELSE IF ~added.ok THEN added
    ELSE parse_from(s, u, added.v, FALSE)
unit_phase(s, j, k, u, current) ==
    after_unit(s, u, parse_unit(DigitsValue(SubSeq(s, j, k - 1)), SubSeq(s, k, u - 1), current))
number_phase(s, j, k, current) ==
    IF k <= Len(s) /\ ~IsAlpha(s[k]) THEN Err("invalid character")
    ELSE unit_phase(s, j, k, UnitEnd(s, k), current)
first_char(s, j, current, first) ==
    IF j > Len(s) THEN (IF first THEN Err("value was empty") ELSE Ok(current))
    ELSE IF ~IsDigit(s[j]) THEN Err("expected number")
    ELSE number_phase(s, j, NumberEnd(s, j), current)
parse_from(s, i, current, first) == first_char(s, SkipSpaces(s, i), current, first)

parse_duration(s) == parse_from(s, 1, Duration(0, 0), TRUE)

\* item / item_plural of humantime's FormattedDuration.
item(out, name, value, plural) ==
    IF value > 0
    THEN (IF out = <<>> THEN <<>> ELSE out \o <<" ">>) \o ToDecimal(value) \o name
         \o (IF plural /\ value > 1 THEN <<"s">> ELSE <<>>)
    ELSE out

\* format_duration without the sub-second items.
format_duration_whole_seconds(d) ==
    IF d.secs = 0 THEN <<"0", "s">>
    ELSE LET years == d.secs \div 31557600
             ydays == d.secs % 31557600
             months == ydays \div 2630016
             mdays == ydays % 2630016
             days == mdays \div 86400
             day_secs == mdays % 86400
             o1 == item(<<>>, <<"y", "e", "a", "r">>, years, TRUE)
             o2 == item(o1, <<"m", "o", "n", "t", "h">>, months, TRUE)
             o3 == item(o2, <<"d", "a", "y">>, days, TRUE)
             o4 == item(o3, <<"h">>, day_secs \div 3600, FALSE)
             o5 == item(o4, <<"m">>, (day_secs % 3600) \div 60, FALSE)
         IN item(o5, <<"s">>, day_secs % 60, FALSE)

format_duration(d) ==
    IF d.secs = 0 /\ d.nanos = 0 THEN <<"0", "s">>
    ELSE LET years == d.secs \div 31557600
             ydays == d.secs % 31557600
             months == ydays \div 2630016
             mdays == ydays % 2630016
             days == mdays \div 86400
             day_secs == mdays % 86400
             hours == day_secs \div 3600
             minutes == (day_secs % 3600) \div 60
             seconds == day_secs % 60
             millis == d.nanos \div 1000000
             micros == (d.nanos \div 1000) % 1000
             nanosec == d.nanos % 1000
             o1 == item(<<>>, <<"y", "e", "a", "r">>, years, TRUE)
             o2 == item(o1, <<"m", "o", "n", "t", "h">>, months, TRUE)
             o3 == item(o2, <<"d", "a", "y">>, days, TRUE)
             o4 == item(o3, <<"h">>, hours, FALSE)
             o5 == item(o4, <<"m">>, minutes, FALSE)
             o6 == item(o5, <<"s">>, seconds, FALSE)
             o7 == item(o6, <<"m", "s">>, millis, FALSE)
             o8 == item(o7, <<"u", "s">>, micros, FALSE)
         IN item(o8, <<"n", "s">>, nanosec, FALSE)

\* --------------------------------------- config.rs: the serialized boundary
\* A document is a table of camelCase keys; each key is absent, null or present
\* with a value.
Absent == [present |-> FALSE]
Null == [present |-> TRUE, null |-> TRUE]
Present(x) == [present |-> TRUE, null |-> FALSE, v |-> x]
HasValue(e) == e.present /\ ~e.null

\* #[serde(with = "humantime_serde")]: a Duration is written as its
\* format_duration text and read with parse_duration.
humantime_serialize(d) == Present(format_duration(d))

\* An Option field without skip_serializing_if: None is written as null.
skip_if_none_as_null(opt) == IF ~opt.some THEN Null ELSE Present(opt.v)

\* #[serde(skip_serializing_if = "Option::is_none")]
skip_if_none(opt) == IF ~opt.some THEN Absent ELSE Present(opt.v)

\* #[derive(Serialize)] #[serde(rename_all = "camelCase")] PoolOptions
SerializePoolOptions(p) ==
    [maxConnections |-> Present(p.max_connections),
     minConnections |-> Present(p.min_connections),
     acquireTimeout |-> humantime_serialize(p.acquire_timeout),
     idleTimeout |-> humantime_serialize(p.idle_timeout),
     maxLifetime |-> humantime_serialize(p.max_lifetime),
     isLazy |-> Present(p.is_lazy),
     statementCacheCapacity |-> Present(p.statement_cache_capacity)]

\* #[derive(Serialize)] #[serde(rename_all = "camelCase")] DatabaseConfig
SerializeDatabaseConfig(c) ==
    [host |-> Present(c.host),
     port |-> skip_if_none(c.port),
     username |-> Present(c.username),
     password |-> Present(c.password),
     databaseName |-> Present(c.database_name),
     poolOptions |-> Present(SerializePoolOptions(c.pool_options)),
     sslCa |-> skip_if_none(c.ssl_ca)]

\* #[derive(Serialize)] AppConfig
SerializeAppConfig(a) == [database |-> Present(SerializeDatabaseConfig(a.database))]

\* A field with #[serde(default = "...")]: the default when the key is absent.
field_or_default(e, default) ==
    IF ~e.present THEN Ok(default)
    ELSE IF e.null THEN Err("invalid type: null")
    ELSE Ok(e.v)

\* A humantime_serde field with #[serde(default = "...")].
duration_or_default(e, default) ==
    IF ~e.present THEN Ok(default)
    ELSE IF e.null THEN Err("invalid type: null")
    ELSE LET d == parse_duration(e.v)
         IN IF d.ok THEN d ELSE Err("invalid value: " \o d.e)

\* A required field carrying #[serde(default)]: the empty string when missing.
required_field_defaulted(e, name) ==
    IF ~e.present THEN Ok("")
    ELSE IF e.null THEN Err("invalid type: null")
    ELSE Ok(e.v)

\* A field without a default: a missing key is an error.
required_field(e, name) ==
    IF ~e.present THEN Err("missing field " \o name)
    ELSE IF e.null THEN Err("invalid type: null")
    ELSE Ok(e.v)

\* An Option<T> field: an absent or null key is None.
optional_field(e) == IF HasValue(e) THEN Ok(Some(e.v)) ELSE Ok(None)

FirstError(results) ==
    LET bad == {i \in 1..Len(results) : ~results[i].ok}
    IN results[CHOOSE i \in bad : \A k \in bad : i <= k]

\* PoolOptions whose idle_timeout is read from the maxLifetime key.
DeserializePoolOptionsCrossed(t) ==
    LET max == field_or_default(t.maxConnections, default_max_connections)
        min == field_or_default(t.minConnections, default_min_connections)
        acq == duration_or_default(t.acquireTimeout, default_acquire_timeout)
        idle == duration_or_default(t.maxLifetime, default_idle_timeout)
        life == duration_or_default(t.maxLifetime, default_max_lifetime)
        lazy == field_or_default(t.isLazy, default_is_lazy)
        cache == field_or_default(t.statementCacheCapacity, default_statement_cache_capacity)
        all == <<max, min, acq, idle, life, lazy, cache>>
    IN IF \E i \in 1..7 : ~all[i].ok THEN FirstError(all)
       ELSE Ok([max_connections |-> max.v,
                min_connections |-> min.v,
                acquire_timeout |-> acq.v,
                idle_timeout |-> idle.v,
                max_lifetime |-> life.v,
                is_lazy |-> lazy.v,
                statement_cache_capacity |-> cache.v])

\* #[derive(Deserialize)] #[serde(rename_all = "camelCase")] PoolOptions
DeserializePoolOptions(t) ==
    LET max == field_or_default(t.maxConnections, default_max_connections)
        min == field_or_default(t.minConnections, default_min_connections)
        acq == duration_or_default(t.acquireTimeout, default_acquire_timeout)
        idle == duration_or_default(t.idleTimeout, default_idle_timeout)
        life == duration_or_default(t.maxLifetime, default_max_lifetime)
        lazy == field_or_default(t.isLazy, default_is_lazy)
        cache == field_or_default(t.statementCacheCapacity, default_statement_cache_capacity)
        all == <<max, min, acq, idle, life, lazy, cache>>
    IN IF \E i \in 1..7 : ~all[i].ok THEN FirstError(all)
       ELSE Ok([max_connections |-> max.v,
                min_connections |-> min.v,
                acquire_timeout |-> acq.v,
                idle_timeout |-> idle.v,
                max_lifetime |-> life.v,
                is_lazy |-> lazy.v,
                statement_cache_capacity |-> cache.v])

\* pool_options without #[serde(default)]: a missing section is an error.
pool_options_field_required(e) ==
    IF ~e.present THEN Err("missing field poolOptions")
    ELSE IF e.null THEN Err("invalid type: null")
    ELSE DeserializePoolOptions(e.v)

\* #[serde(default)] pool_options: PoolOptions::default() when the section is absent.
pool_options_field(e) ==
    IF ~e.present THEN Ok(PoolOptionsDefault)
    ELSE IF e.null THEN Err("invalid type: null")
    ELSE DeserializePoolOptions(e.v)

\* #[derive(Deserialize)] #[serde(rename_all = "camelCase")] DatabaseConfig
DeserializeDatabaseConfig(t) ==
    LET host == required_field(t.host, "host")
        port == optional_field(t.port)
        username == required_field(t.username, "username")
        password == required_field(t.password, "password")
        database_name == required_field(t.databaseName, "databaseName")
        pool_options == pool_options_field(t.poolOptions)
        ssl_ca == optional_field(t.sslCa)
        all == <<pool_options, host, port, username, password, database_name, ssl_ca>>
    IN IF \E i \in 1..7 : ~all[i].ok THEN FirstError(all)
       ELSE Ok([host |-> host.v,
                port |-> port.v,
                username |-> username.v,
                password |-> password.v,
                database_name |-> database_name.v,
                pool_options |-> pool_options.v,
                ssl_ca |-> ssl_ca.v])

\* #[derive(Deserialize)] AppConfig
DeserializeAppConfig(doc) ==
    IF ~HasValue(doc.database) THEN Err("missing field database")
    ELSE LET db == DeserializeDatabaseConfig(doc.database.v)
         IN IF db.ok THEN Ok([database |-> db.v]) ELSE db

\* ------------------------------------------------ pool.rs: the URL (url crate)
\* Url::parse(&format!("mysql://{}", address)) for the non-special scheme mysql.
\* The input is trimmed of trailing spaces; the authority runs to the first
\* "/"; it splits at its first ":" into an opaque host and a port.  Userinfo
\* ("@"), query and fragment characters are not in the alphabet tried.
RECURSIVE TrimEnd(_)
TrimEnd(s) ==
    IF s # <<>> /\ IsSpace(s[Len(s)]) THEN TrimEnd(SubSeq(s, 1, Len(s) - 1)) ELSE s

UrlParse(addr) ==
    LET input == TrimEnd(addr)
        authEnd == Find(input, 1, "/")
        authority == SubSeq(input, 1, authEnd - 1)
        colon == Find(authority, 1, ":")
        hostStr == SubSeq(authority, 1, colon - 1)
        hasPort == colon <= Len(authority)
        portStr == SubSeq(authority, colon + 1, Len(authority))
    IN IF \E i \in 1..Len(hostStr) : IsSpace(hostStr[i])
       THEN Err("invalid domain character")
       ELSE IF hasPort /\ hostStr = <<>> THEN Err("empty host")
       ELSE IF hasPort /\ (~AllDigits(portStr) \/ Len(portStr) > 5)
       THEN Err("invalid port number")
       ELSE IF hasPort /\ DecimalValue(portStr) > 65535 THEN Err("invalid port number")
       ELSE Ok([host |-> hostStr,
                port |-> IF hasPort /\ portStr # <<>> THEN Some(DecimalValue(portStr)) ELSE None,
                username |-> "",
                password |-> None,
                path |-> ""])

\* Url::set_username / Url::set_password: refused for a URL without a host.
set_username(u, username) ==
    IF u.host = <<>> THEN Err("()") ELSE Ok([u EXCEPT !.username = username])
set_password(u, password) ==
    IF u.host = <<>> THEN Err("()") ELSE Ok([u EXCEPT !.password = password])
set_path(u, path) == [u EXCEPT !.path = path]

\* ------------------------------------------------------- pool.rs: tracing
\* An event: its level, its message, the config fields its text is taken from
\* (from), the address text it embeds (shows) and the value it prints (arg).
Event(level, msg, from, shows, arg) ==
    [level |-> level, msg |-> msg, from |-> from, shows |-> shows, arg |-> arg]

\* ConnectOptions::new(url): nothing but the URL is set.
ConnectOptionsNew(u) ==
    [url |-> u,
     max_connections |-> None,
     min_connections |-> None,
     acquire_timeout |-> None,
     idle_timeout |-> None,
     max_lifetime |-> None,
     sqlx_logging_level |-> "Info",
     sqlx_slow_statements_logging_level |-> "Warn",
     connect_lazy |-> FALSE,
     ssl_ca |-> None]

\* The builder calls with min_connections clamped to max_connections.
ApplyPoolOptionsClamped(opts, c) ==
    [opts EXCEPT !.max_connections = Some(c.pool_options.max_connections),
                 !.min_connections =
                     Some(IF c.pool_options.min_connections > c.pool_options.max_connections
                          THEN c.pool_options.max_connections
                          ELSE c.pool_options.min_connections),
                 !.acquire_timeout = Some(c.pool_options.acquire_timeout),
                 !.idle_timeout = Some(c.pool_options.idle_timeout),
                 !.max_lifetime = Some(c.pool_options.max_lifetime),
                 !.sqlx_logging_level = "Debug",
                 !.sqlx_slow_statements_logging_level = "Off"]

\* pool.rs 94-109: the builder calls create_connection_pool makes.
ApplyPoolOptions(opts, c) ==
    [opts EXCEPT !.max_connections = Some(c.pool_options.max_connections),
                 !.min_connections = Some(c.pool_options.min_connections),
                 !.acquire_timeout = Some(c.pool_options.acquire_timeout),
                 !.idle_timeout = Some(c.pool_options.idle_timeout),
                 !.max_lifetime = Some(c.pool_options.max_lifetime),
                 !.sqlx_logging_level = "Debug",
                 !.sqlx_slow_statements_logging_level = "Off"]

\* log_pool_settings without its last line.
log_pool_settings_without_lifetime(options) ==
    << Event("INFO", "Pool Settings:", {}, None, None),
       Event("INFO", "-> Max connections", {"max_connections"}, None, options.max_connections),
       Event("INFO", "-> Min connections", {"min_connections"}, None, options.min_connections),
       Event("INFO", "-> Acquire timeout", {"acquire_timeout"}, None, options.acquire_timeout),
       Event("INFO", "-> Idle timeout", {"idle_timeout"}, None, options.idle_timeout) >>

log_pool_settings(options) ==
    << Event("INFO", "Pool Settings:", {}, None, None),
       Event("INFO", "-> Max connections", {"max_connections"}, None, options.max_connections),
       Event("INFO", "-> Min connections", {"min_connections"}, None, options.min_connections),
       Event("INFO", "-> Acquire timeout", {"acquire_timeout"}, None, options.acquire_timeout),
       Event("INFO", "-> Idle timeout", {"idle_timeout"}, None, options.idle_timeout),
       Event("INFO", "-> Max lifetime", {"max_lifetime"}, None, options.max_lifetime) >>

\* What Database::connect can answer when it fails.  The cause is the driver's
\* text, built from the options it was handed: an I/O failure names nothing of
\* the config, a server's access-denied answer names the user it refused.
ConnectCauses ==
    { [kind |-> "io", from |-> {}],
      [kind |-> "access_denied", from |-> {"username", "host"}] }

\* ------------------------------------------------------------ inputs tried
HostChars == {"h", " ", "/", ":"}
RECURSIVE StringsUpTo(_)
StringsUpTo(n) ==
    IF n = 0 THEN {<<>>}
    ELSE LET shorter == StringsUpTo(n - 1)
         IN shorter \cup {Append(s, c) : s \in shorter, c \in HostChars}
Hosts == StringsUpTo(MaxHostLen)
Ports == {None, Some(0), Some(3306), Some(65535)}

BaseConfig ==
    [host |-> <<"h">>, port |-> Some(3306), username |-> "user", password |-> "secret",
     database_name |-> "db", pool_options |-> PoolOptionsDefault, ssl_ca |-> None]

DurationValues ==
    { Duration(0, 0), from_secs(1), from_secs(90), from_secs(1800), from_secs(86400),
      from_secs(2716417), from_secs(63115201), Duration(1, 500000000), Duration(0, 1001001) }

EndpointConfigs ==
    { [BaseConfig EXCEPT !.host = h, !.port = p, !.username = u, !.ssl_ca = ca] :
        h \in Hosts, p \in Ports, u \in {"user", "a@b"}, ca \in {None, Some("/ca.pem")} }
LimitConfigs ==
    { [BaseConfig EXCEPT !.pool_options =
          [PoolOptionsDefault EXCEPT !.max_connections = mx, !.min_connections = mn,
                                     !.is_lazy = lz, !.statement_cache_capacity = sc]] :
        mx \in {5, 10}, mn \in {1, 20}, lz \in BOOLEAN, sc \in {0, 100} }
TimeoutConfigs ==
    { [BaseConfig EXCEPT !.pool_options =
          [PoolOptionsDefault EXCEPT !.acquire_timeout = a, !.idle_timeout = i,
                                     !.max_lifetime = l]] :
        a \in DurationValues, i \in DurationValues, l \in DurationValues }
Configs == EndpointConfigs \cup LimitConfigs \cup TimeoutConfigs \cup {DatabaseConfigDefault}

\* Duration texts: <n><unit> for the four documented units, and texts that are
\* not durations.
Units == {"s", "m", "h", "d"}
UnitSeconds(u) == CASE u = "s" -> 1 [] u = "m" -> 60 [] u = "h" -> 3600 [] u = "d" -> 86400
DurationText(n, u) == ToDecimal(n) \o <<u>>
DurationTexts == {DurationText(n, u) : n \in 1..MaxCount, u \in Units}
NotDurations == { <<>>, <<"a", "b", "c">>, <<"5">>, <<"5", "x">>, <<"s", "5">>, <<"1", "-", "s">> }
TimeoutTexts == DurationTexts \cup NotDurations

AllAbsent ==
    [maxConnections |-> Absent, minConnections |-> Absent, acquireTimeout |-> Absent,
     idleTimeout |-> Absent, maxLifetime |-> Absent, isLazy |-> Absent,
     statementCacheCapacity |-> Absent]
FullDatabase ==
    [host |-> Present(<<"h">>), port |-> Absent, username |-> Present("user"),
     password |-> Present("secret"), databaseName |-> Present("db"),
     poolOptions |-> Absent, sslCa |-> Absent]

OptionalEntry(values) == {Absent} \cup {Present(x) : x \in values}
LimitTables ==
    { [AllAbsent EXCEPT !.maxConnections = mx, !.minConnections = mn, !.isLazy = lz,
                        !.statementCacheCapacity = sc, !.acquireTimeout = a,
                        !.idleTimeout = i, !.maxLifetime = l] :
        mx \in OptionalEntry({5}), mn \in OptionalEntry({3}), lz \in OptionalEntry({FALSE}),
        sc \in OptionalEntry({250}), a \in OptionalEntry({<<"2", "m">>}),
        i \in OptionalEntry({<<"2", "m">>}), l \in OptionalEntry({<<"2", "m">>}) }
TimeoutTables ==
    { [AllAbsent EXCEPT !.acquireTimeout = a, !.idleTimeout = i, !.maxLifetime = l] :
        a \in OptionalEntry(TimeoutTexts), i \in OptionalEntry(TimeoutTexts),
        l \in OptionalEntry(TimeoutTexts) }
SectionDocuments ==
    { [FullDatabase EXCEPT !.host = h, !.username = u, !.password = pw, !.databaseName = db,
                           !.port = p, !.sslCa = ca, !.poolOptions = po] :
        h \in {Absent, Present(<<"h">>)}, u \in {Absent, Present("user")},
        pw \in {Absent, Present("secret")}, db \in {Absent, Present("db")},
        p \in {Absent, Null, Present(3306)}, ca \in {Absent, Present("/ca.pem")},
        po \in {Absent, Present(AllAbsent)} }
TableDocuments ==
    { [FullDatabase EXCEPT !.poolOptions = Present(t)] : t \in LimitTables \cup TimeoutTables }
Documents ==
    { [database |-> Present(d)] : d \in SectionDocuments \cup TableDocuments }
    \cup { [database |-> Absent] }

\* ------------------------------------------------------------------- state
NoDocument == [database |-> Absent]

Init ==
    /\ \/ config \in Configs /\ document = NoDocument /\ origin = "none"
       \/ config = DatabaseConfigDefault /\ document \in Documents /\ origin = "input"
    /\ parsed = None
    /\ address = None
    /\ last = "init"
    /\ pc = "idle"
    /\ url = None
    /\ connect_options = None
    /\ log = <<>>
    /\ span = None
    /\ ret = None
    /\ failure = "none"
    /\ connectCalls = 0

poolVars == <<pc, url, connect_options, log, span, ret, failure, connectCalls>>

\* config.get_address()
GetAddress ==
    /\ pc = "idle" /\ origin # "input" /\ ~address.some
    /\ address' = Some(get_address(config))
    /\ last' = "get_address"
    /\ UNCHANGED <<config, document, origin, parsed, poolVars>>

\* to_string(&AppConfig { database: config })
to_string ==
    /\ pc = "idle" /\ origin = "none"
    /\ document' = SerializeAppConfig([database |-> config])
    /\ origin' = "serialized"
    /\ last' = "to_string"
    /\ UNCHANGED <<config, parsed, address, poolVars>>

\* from_str::<AppConfig>(document)
from_str ==
    /\ pc = "idle" /\ origin # "none" /\ ~parsed.some
    /\ parsed' = Some(DeserializeAppConfig(document))
    /\ last' = "from_str"
    /\ UNCHANGED <<config, document, origin, address, poolVars>>

\* create_connection_pool(config): entering the db_pool_creation span (pool.rs 70-72)
Enter ==
    /\ pc = "idle" /\ last = "init" /\ origin = "none"
    /\ span' = Some([name |-> "db_pool_creation", db_host |-> config.host, from |-> {"host"}])
    /\ log' = <<Event("INFO", "Initializing database connection pool...", {}, None, None)>>
    /\ pc' = "build_url"
    /\ last' = "create_connection_pool"
    /\ UNCHANGED <<config, document, origin, parsed, address, url, connect_options, ret,
                   failure, connectCalls>>

\* pool.rs 84-88: parse the endpoint, then set the credentials and the path.
\* A parse error is mapped to DbErr::Custom and returned (the span records it);
\* set_username and set_password are unwrapped, so their Err(()) is a panic.
BuildUrl ==
    /\ pc = "build_url"
    /\ LET p == UrlParse(get_address(config))
           u1 == set_username(p.v, config.username)
           u2 == set_password(u1.v, Some(config.password))
       IN IF ~p.ok
          THEN /\ failure' = "invalid_endpoint"
               /\ ret' = Some(Err([kind |-> "Custom", msg |-> p.e, from |-> {}]))
               /\ log' = Append(log, Event("ERROR", "error", {}, None, None))
               /\ pc' = "returned"
               /\ url' = url
          ELSE IF ~u1.ok \/ ~u2.ok
          THEN /\ failure' = "credentials"
               /\ pc' = "panicked"
               /\ UNCHANGED <<ret, log, url>>
          ELSE /\ url' = Some(set_path(u2.v, config.database_name))
               /\ pc' = "configure"
               /\ UNCHANGED <<ret, log, failure>>
    /\ UNCHANGED <<config, document, origin, parsed, address, last, connect_options, span,
                   connectCalls>>

\* pool.rs 91-117: the connect options, log_pool_settings, the "Connecting" line.
Configure ==
    /\ pc = "configure"
    /\ LET options == ApplyPoolOptions(ConnectOptionsNew(url.v), config)
       IN /\ connect_options' = Some(options)
          /\ log' = log \o log_pool_settings(options)
                        \o <<Event("INFO", "Connecting to the database... Lazy mode",
                                   {"is_lazy"}, None, Some(config.pool_options.is_lazy))>>
    /\ pc' = "connect"
    /\ UNCHANGED <<config, document, origin, parsed, address, last, url, span, ret, failure,
                   connectCalls>>

\* pool.rs 120, 129-130: Database::connect succeeds.
ConnectOk ==
    /\ pc = "connect"
    /\ connectCalls' = connectCalls + 1
    /\ log' = Append(log, Event("INFO", "Database connection pool initialized successfully.",
                                {}, None, None))
    /\ ret' = Some(Ok([pool |-> connect_options.v]))
    /\ pc' = "returned"
    /\ UNCHANGED <<config, document, origin, parsed, address, last, url, connect_options,
                   span, failure>>

\* A failing connect that is attempted a second time before giving up.
ConnectFailsAndRetries ==
    /\ pc = "connect"
    /\ \E cause \in ConnectCauses :
        /\ log' = log \o
              << Event("ERROR", "Failed to connect to database server at",
                       {"host", "port"} \cup cause.from, Some(get_address(config)), None),
                 Event("ERROR", "error", cause.from, None, None) >>
        /\ ret' = Some(Err([kind |-> "Conn", msg |-> cause.kind, from |-> cause.from]))
    /\ connectCalls' = connectCalls + 1
    /\ failure' = "connect"
    /\ pc' = IF connectCalls = 0 THEN "connect" ELSE "returned"
    /\ UNCHANGED <<config, document, origin, parsed, address, last, url, connect_options,
                   span>>

\* pool.rs 120-127: Database::connect fails; the cause is logged with the
\* address and returned as it is (the span records it too).
ConnectFails ==
    /\ pc = "connect"
    /\ \E cause \in ConnectCauses :
        /\ log' = log \o
              << Event("ERROR", "Failed to connect to database server at",
                       {"host", "port"} \cup cause.from, Some(get_address(config)), None),
                 Event("ERROR", "error", cause.from, None, None) >>
        /\ ret' = Some(Err([kind |-> "Conn", msg |-> cause.kind, from |-> cause.from]))
    /\ connectCalls' = connectCalls + 1
    /\ failure' = "connect"
    /\ pc' = "returned"
    /\ UNCHANGED <<config, document, origin, parsed, address, last, url, connect_options,
                   span>>

Next ==
    \/ GetAddress
    \/ to_string
    \/ from_str
    \/ Enter
    \/ BuildUrl
    \/ Configure
    \/ ConnectOk
    \/ ConnectFails

Spec == Init /\ [][Next]_vars

\* ------------------------------------------------------------------ claims
Credentials == {"username", "password"}
RequiredKeys == {"host", "username", "password", "databaseName"}
TimeoutKeys == {"acquireTimeout", "idleTimeout", "maxLifetime"}
Section == document.database.v
Table == document.database.v.poolOptions.v
Parsed == parsed.v.v.database
WasRead == parsed.some /\ origin = "input" /\ HasValue(document.database)
RequiredGiven == \A k \in RequiredKeys : HasValue(Section[k])
HasTable == RequiredGiven /\ HasValue(Section.poolOptions)
TimeoutField(p, k) ==
    CASE k = "acquireTimeout" -> p.acquire_timeout
      [] k = "idleTimeout" -> p.idle_timeout
      [] k = "maxLifetime" -> p.max_lifetime
TimeoutDefault(k) ==
    CASE k = "acquireTimeout" -> Duration(30, 0)
      [] k = "idleTimeout" -> Duration(300, 0)
      [] k = "maxLifetime" -> Duration(1800, 0)
TimeoutsWellFormed ==
    \A k \in TimeoutKeys : HasValue(Table[k]) => Table[k].v \in DurationTexts

\* C1: get_address returns exactly host ":" port (the port in decimal) when the
\* port is Some, exactly host when it is None, and leaves the config as it was.
C1_AddressShape ==
    address.some =>
        LET a == address.v
            n == Len(config.host)
            digits == SubSeq(a, n + 2, Len(a))
        IN IF config.port.some
           THEN /\ Len(a) >= n + 2
                /\ SubSeq(a, 1, n) = config.host
                /\ a[n + 1] = ":"
                /\ AllDigits(digits)
                /\ DecimalValue(digits) = config.port.v
                /\ (Len(digits) = 1 \/ digits[1] # "0")
           ELSE a = config.host
C1_GetAddress ==
    [](C1_AddressShape) /\ [][address' # address => config' = config /\ address'.some]_vars
C1_Witness ==
    address.some /\ config.port = Some(65535) /\ config.host = <<"h", "h">>

\* C2: a document with every required database field and no poolOptions section
\* deserializes, and its pool_options are 10, 1, 30s, 300s, 1800s, true, 100.
C2_OmittedSectionDefaults ==
    (WasRead /\ RequiredGiven /\ ~Section.poolOptions.present) =>
        /\ parsed.v.ok
        /\ Parsed.pool_options =
              [max_connections |-> 10, min_connections |-> 1,
               acquire_timeout |-> Duration(30, 0), idle_timeout |-> Duration(300, 0),
               max_lifetime |-> Duration(1800, 0), is_lazy |-> TRUE,
               statement_cache_capacity |-> 100]
C2_Witness ==
    WasRead /\ RequiredGiven /\ ~Section.poolOptions.present /\ parsed.v.ok
    /\ Section.sslCa.present

\* C3: in a well-formed poolOptions table every given field resolves to exactly
\* the given value and every omitted field to its documented default, whatever
\* the other fields are.
C3_SubsetOfPoolOptions ==
    (WasRead /\ HasTable /\ TimeoutsWellFormed) =>
        /\ parsed.v.ok
        /\ Parsed.pool_options.max_connections =
              (IF Table.maxConnections.present THEN Table.maxConnections.v ELSE 10)
        /\ Parsed.pool_options.min_connections =
              (IF Table.minConnections.present THEN Table.minConnections.v ELSE 1)
        /\ Parsed.pool_options.is_lazy =
              (IF Table.isLazy.present THEN Table.isLazy.v ELSE TRUE)
        /\ Parsed.pool_options.statement_cache_capacity =
              (IF Table.statementCacheCapacity.present
               THEN Table.statementCacheCapacity.v ELSE 100)
        /\ \A k \in TimeoutKeys :
              IF Table[k].present
              THEN \E n \in 1..MaxCount, u \in Units :
                      /\ Table[k].v = DurationText(n, u)
                      /\ TimeoutField(Parsed.pool_options, k) = Duration(n * UnitSeconds(u), 0)
              ELSE TimeoutField(Parsed.pool_options, k) = TimeoutDefault(k)
C3_Witness ==
    /\ WasRead /\ HasTable /\ TimeoutsWellFormed
    /\ Table.maxConnections.present /\ ~Table.minConnections.present
    /\ Table.idleTimeout.present /\ ~Table.maxLifetime.present
    /\ Parsed.pool_options.max_connections = 5
    /\ Parsed.pool_options.idle_timeout = Duration(120, 0)

\* C4: a document that lacks host, username, password or databaseName is
\* rejected with an error; nothing is put in the place of the missing field.
C4_MissingRequiredFails ==
    (WasRead /\ ~RequiredGiven) => ~parsed.v.ok
C4_Witness ==
    WasRead /\ ~Section.host.present /\ Section.username.present
    /\ Section.password.present /\ Section.databaseName.present /\ ~parsed.v.ok

\* C5: serializing a constructed AppConfig and deserializing the output gives
\* back a value equal to the original, field for field.
C5_RoundTrip ==
    (origin = "serialized" /\ parsed.some) => parsed.v = Ok([database |-> config])
C5_Witness ==
    /\ origin = "serialized" /\ parsed.some
    /\ config.pool_options.max_lifetime = Duration(0, 1001001)
    /\ config.pool_options.idle_timeout = Duration(2716417, 0)

\* C6: every failure create_connection_pool detects (endpoint parse, credential
\* encoding, connect) is returned as an Err value, never a panic, and an
\* endpoint failure comes before any connect attempt.
C6_FailuresReturned ==
    failure # "none" =>
        /\ pc = "returned" /\ ret.some /\ ~ret.v.ok
        /\ (failure \in {"invalid_endpoint", "credentials"} => connectCalls = 0)

\* C7: no log event, span field or returned error carries text taken from the
\* username or the password.
C7_NoCredentialsShown ==
    /\ \A i \in 1..Len(log) : log[i].from \cap Credentials = {}
    /\ (span.some => span.v.from \cap Credentials = {})
    /\ ((ret.some /\ ~ret.v.ok) => ret.v.e.from \cap Credentials = {})

\* C8: the connect options handed to the pooling capability carry the CA path
\* exactly when ssl_ca is Some.
C8_CaRouted ==
    connect_options.some => connect_options.v.ssl_ca = config.ssl_ca

\* C9: the serialized DatabaseConfig has the port key exactly when port is Some
\* and the sslCa key exactly when ssl_ca is Some.
C9_SparseSerialization ==
    origin = "serialized" =>
        /\ Section.port.present <=> config.port.some
        /\ Section.sslCa.present <=> config.ssl_ca.some
C9_Witness ==
    origin = "serialized" /\ ~config.port.some /\ ~config.ssl_ca.some
    /\ ~Section.port.present /\ ~Section.sslCa.present

\* C10: in each of the three duration fields <n>s, <n>m, <n>h, <n>d reads as
\* exactly n, 60n, 3600n, 86400n seconds, and a text that is not a duration
\* makes deserialization fail.
C10_DurationTexts ==
    (WasRead /\ HasTable) =>
        /\ (\E k \in TimeoutKeys : HasValue(Table[k]) /\ Table[k].v \in NotDurations)
              => ~parsed.v.ok
        /\ TimeoutsWellFormed => parsed.v.ok
        /\ parsed.v.ok =>
              \A k \in TimeoutKeys, n \in 1..MaxCount :
                  /\ Table[k] = Present(ToDecimal(n) \o <<"s">>)
                        => TimeoutField(Parsed.pool_options, k) = Duration(n, 0)
                  /\ Table[k] = Present(ToDecimal(n) \o <<"m">>)
                        => TimeoutField(Parsed.pool_options, k) = Duration(60 * n, 0)
                  /\ Table[k] = Present(ToDecimal(n) \o <<"h">>)
                        => TimeoutField(Parsed.pool_options, k) = Duration(3600 * n, 0)
                  /\ Table[k] = Present(ToDecimal(n) \o <<"d">>)
                        => TimeoutField(Parsed.pool_options, k) = Duration(86400 * n, 0)
C10_Witness ==
    /\ WasRead /\ HasTable /\ parsed.v.ok
    /\ Table.acquireTimeout = Present(<<"2", "m">>)
    /\ Table.idleTimeout = Present(<<"1", "h">>)
    /\ Table.maxLifetime = Present(<<"2", "d">>)
    /\ Parsed.pool_options.max_lifetime = Duration(172800, 0)

\* C11: the five pool-setting lines (max and min connections, acquire and idle
\* timeout, max lifetime) are in the log before Database::connect is invoked,
\* so also when the connect step fails.
SettingLines ==
    {"-> Max connections", "-> Min connections", "-> Acquire timeout",
     "-> Idle timeout", "-> Max lifetime"}
SettingsLogged(events) ==
    \A m \in SettingLines : \E i \in 1..Len(events) : events[i].msg = m /\ events[i].level = "INFO"
C11_SettingsBeforeConnect ==
    /\ [][connectCalls' # connectCalls => SettingsLogged(log)]_vars
    /\ [](failure = "connect" => SettingsLogged(log))
C11_Witness ==
    failure = "connect" /\ connectCalls = 1 /\ SettingsLogged(log)
    /\ config.pool_options.max_connections = 5

\* C12: Database::connect is invoked at most once per call; when it fails there
\* is no further attempt, an ERROR event shows the address (host, or host:port),
\* and the call returns the failure: no success line, no pool handle.
ShownAddress ==
    IF config.port.some THEN config.host \o <<":">> \o ToDecimal(config.port.v)
    ELSE config.host
C12_FailedOnce ==
    /\ connectCalls <= 1
    /\ failure = "connect" =>
          /\ connectCalls = 1
          /\ pc = "returned"
          /\ ret.some /\ ~ret.v.ok
          /\ \E i \in 1..Len(log) : log[i].level = "ERROR" /\ log[i].shows = Some(ShownAddress)
          /\ \A i \in 1..Len(log) :
                log[i].msg # "Database connection pool initialized successfully."
C12_SingleAttempt ==
    [](C12_FailedOnce) /\ [][failure = "connect" => connectCalls' = connectCalls]_vars
C12_Witness ==
    failure = "connect" /\ connectCalls = 1 /\ pc = "returned" /\ ~ret.v.ok
    /\ config.port = Some(65535)

\* C13: the connect options carry max and min connections and the three
\* timeouts exactly as pool_options has them; a pair with min > max is
\* forwarded as it is and the call reaches the connect step with it.
Inverted == config.pool_options.min_connections > config.pool_options.max_connections
C13_LimitsVerbatim ==
    /\ connect_options.some =>
          /\ connect_options.v.max_connections = Some(config.pool_options.max_connections)
          /\ connect_options.v.min_connections = Some(config.pool_options.min_connections)
          /\ connect_options.v.acquire_timeout = Some(config.pool_options.acquire_timeout)
          /\ connect_options.v.idle_timeout = Some(config.pool_options.idle_timeout)
          /\ connect_options.v.max_lifetime = Some(config.pool_options.max_lifetime)
    /\ (Inverted /\ pc \in {"returned", "panicked"} /\ config.host = <<"h">>) =>
          /\ connectCalls = 1
          /\ connect_options.some
    /\ (ret.some /\ ret.v.ok) => ret.v.v.pool = connect_options.v
C13_Witness ==
    /\ connectCalls = 1 /\ Inverted
    /\ connect_options.v.min_connections = Some(20)
    /\ connect_options.v.max_connections = Some(5)

\* C14: is_lazy reaches the pooling capability: the connect options ask for a
\* lazy pool exactly when pool_options.is_lazy is true.
C14_LazyThreaded ==
    connect_options.some => connect_options.v.connect_lazy = config.pool_options.is_lazy

====
